---- MODULE Spec2Model ----
(***************************************************************************)
(* A model of the vulkan-object repository:                                *)
(*   - src/vulkan_object/__init__.py: get_vulkan_object, the accessor      *)
(*     memoised by functools.lru_cache(maxsize=1);                         *)
(*   - update.py: main and its four steps (get_vulkan_header_version,      *)
(*     copy_registry_files, update_pyproject_version,                      *)
(*     fix_relative_imports).                                              *)
(* Four specifications share the module:                                   *)
(*   Spec        one caller, get_vulkan_object and cache_clear in sequence *)
(*   SpecConc    several threads inside get_vulkan_object at once          *)
(*   SpecUpdate  update.py main, step by step                              *)
(*   SpecFix     fix_relative_imports applied to one file's text           *)
(***************************************************************************)
EXTENDS Integers, Sequences, FiniteSets, TLC

VARIABLES
    fs,         \* accessor: kind of the bundled document and of the alternate path
    cache,      \* accessor: the lru_cache, a sequence of entries, oldest first
    nextInst,   \* accessor: identity the next VulkanObject built will have
    nops,       \* accessor: number of calls and clears made so far
    last,       \* accessor: record of the most recent call or clear
    prev,       \* accessor: record of the one before it
    firstInst,  \* accessor: per document, the instance of its first build since the last clear
    returned,   \* accessor: per document, the instances returned so far
    oldInst,    \* accessor: per document, the instances returned before the last clear
    usedKeys,   \* accessor: the call forms used so far
    thr,        \* accessor: per thread, its position inside get_vulkan_object
    upc,        \* update.py: position of main
    srcReg,     \* update.py: the source tree's registry directory
    dest,       \* update.py: DEST_DIR
    pyproject,  \* update.py: pyproject.toml
    version,    \* update.py: main's local variable version
    trail,      \* update.py: the steps main has run, in order
    orig,       \* update.py: what DEST_DIR, pyproject.toml or the file held before
    text,       \* fix_relative_imports: content of one .py file
    passes      \* fix_relative_imports: number of runs over that content

cacheVars  == <<fs, cache, nextInst, nops>>
histVars   == <<last, prev, firstInst, returned, oldInst, usedKeys>>
updateVars == <<upc, srcReg, dest, pyproject, version, trail, orig>>
fixVars    == <<text, passes>>
vars == <<fs, cache, nextInst, nops, last, prev, firstInst, returned, oldInst, usedKeys,
          thr, upc, srcReg, dest, pyproject, version, trail, orig, text, passes>>

(***************************************************************************)
(* Bounds of the model.                                                    *)
(***************************************************************************)
MaxOps == 5
MaxLen == 4
MaxPasses == 2

(***************************************************************************)
(* get_vulkan_object: arguments, cache keys, documents.                    *)
(***************************************************************************)
\* functools.lru_cache(maxsize=1)
maxsize == 1

\* Values alternative_xml can take: None (also the default), the empty
\* string, and one explicit path.
ArgValues == {"None", "", "p1"}

\* The ways get_vulkan_object is called.  lru_cache builds its key from the
\* positional arguments and the keyword items as passed, so f(), f(None) and
\* f(alternative_xml=None) have three different keys.
Keys ==
    {[form |-> "noarg", arg |-> "None"]}
    \cup {[form |-> "pos", arg |-> a] : a \in ArgValues}
    \cup {[form |-> "kw", arg |-> a] : a \in {"None", "p1"}}

NoKey == [form |-> "-", arg |-> "-"]

\* `if alternative_xml:`  None and "" are falsy.
Truthy(arg) == arg \notin {"None", ""}

\* The document a call compiles: the alternate path, or the bundled vk.xml.
Selection(arg) == IF Truthy(arg) THEN arg ELSE "default"

Selections == {"default", "p1"}

\* States of the file system the accessor reads.
FsStates ==
    {f \in [Selections -> {"missing", "dir", "ok", "malformed", "badreg"}] :
        f["default"] # "dir"}

NoInst == 0

\* Body without the os.path.isfile check: the alternate path goes straight to
\* ElementTree.parse, which is what then fails on a missing path.
Body_NoIsFileCheck(arg, f) ==
    LET d == Selection(arg)
    IN  IF f[d] = "missing"
        THEN [status |-> IF Truthy(arg) THEN "FileNotFoundError" ELSE "RuntimeError",
              parsed |-> TRUE]
        ELSE IF f[d] = "dir" THEN [status |-> "IsADirectoryError", parsed |-> TRUE]
        ELSE IF f[d] = "malformed" THEN [status |-> "ParseError", parsed |-> TRUE]
        ELSE IF f[d] = "badreg" THEN [status |-> "RegistryError", parsed |-> TRUE]
        ELSE [status |-> "ok", parsed |-> TRUE]

\* What the body of get_vulkan_object does for argument arg in file system f:
\* the exception it raises or "ok", and whether ElementTree.parse was called.
Body(arg, f) ==
    IF Truthy(arg)
    THEN IF f[arg] \in {"missing", "dir"}
         THEN [status |-> "FileNotFoundError", parsed |-> FALSE]
         ELSE IF f[arg] = "malformed"
         THEN [status |-> "ParseError", parsed |-> TRUE]
         ELSE IF f[arg] = "badreg"
         THEN [status |-> "RegistryError", parsed |-> TRUE]
         ELSE [status |-> "ok", parsed |-> TRUE]
    ELSE IF f["default"] = "missing"
         THEN [status |-> "RuntimeError", parsed |-> TRUE]
         ELSE IF f["default"] = "malformed"
         THEN [status |-> "ParseError", parsed |-> TRUE]
         ELSE IF f["default"] = "badreg"
         THEN [status |-> "RegistryError", parsed |-> TRUE]
         ELSE [status |-> "ok", parsed |-> TRUE]

(***************************************************************************)
(* functools.lru_cache, bounded: lookup, move-to-front, store with         *)
(* eviction of the least recently used entry.                              *)
(***************************************************************************)
CacheKeys(c) == {c[i].key : i \in 1..Len(c)}

\* CacheHit with the lookup broken: no call is ever served from the cache.
CacheHit_NeverFound(c, k) == FALSE

CacheHit(c, k) == k \in CacheKeys(c)

CacheGet(c, k) == (CHOOSE i \in 1..Len(c) : c[i].key = k)

\* A hit makes the entry the most recently used.
CacheTouch(c, k) ==
    LET i == CacheGet(c, k)
    IN  Append(SubSeq(c, 1, i - 1) \o SubSeq(c, i + 1, Len(c)), c[i])

\* After the wrapped function returned inst: if the key got into the cache
\* meanwhile the cache is left alone, else the entry is added, evicting the
\* oldest one when the cache is full.
CacheStore(c, k, inst) ==
    IF CacheHit(c, k) THEN c
    ELSE IF Len(c) < maxsize THEN Append(c, [key |-> k, inst |-> inst])
    ELSE Append(Tail(c), [key |-> k, inst |-> inst])

\* CacheAfter with the result stored whether or not the function raised.
CacheAfter_StoreAlways(c, k, out, inst) ==
    IF CacheHit(c, k) THEN c
    ELSE IF Len(c) < maxsize THEN Append(c, [key |-> k, inst |-> inst])
    ELSE Append(Tail(c), [key |-> k, inst |-> inst])

\* The cache after the wrapped function ended with outcome out.
CacheAfter(c, k, out, inst) ==
    IF out.status = "ok" THEN CacheStore(c, k, inst) ELSE c

(***************************************************************************)
(* One caller: get_vulkan_object(...) and get_vulkan_object.cache_clear()  *)
(* run to completion one after the other.                                  *)
(***************************************************************************)
NoOp ==
    [op |-> "none", key |-> NoKey, status |-> "-", inst |-> NoInst,
     compiled |-> FALSE, parsed |-> FALSE, fsKind |-> "-",
     cacheBefore |-> <<>>, firstBefore |-> NoInst]

\* Placeholders for the variables a specification does not use.
IdleThreads == <<>>
IdleUpdate ==
    /\ upc = "-" /\ srcReg = "-" /\ dest = "-"
    /\ pyproject = "-" /\ version = "-" /\ trail = <<>> /\ orig = "-"
IdleFix == text = <<>> /\ passes = 0
IdleHist ==
    /\ last = NoOp /\ prev = NoOp /\ usedKeys = {}
    /\ firstInst = [s \in Selections |-> NoInst]
    /\ returned = [s \in Selections |-> {}]
    /\ oldInst = [s \in Selections |-> {}]

InitCache ==
    /\ fs \in FsStates
    /\ cache = <<>>
    /\ nextInst = 1
    /\ nops = 0

IdleCache ==
    /\ fs = "-" /\ cache = <<>> /\ nextInst = 1 /\ nops = 0
    /\ IdleHist /\ thr = IdleThreads

Init ==
    /\ InitCache /\ IdleHist
    /\ thr = IdleThreads /\ IdleUpdate /\ IdleFix

\* get_vulkan_object called in the form k, from the lookup to the return or
\* the raise.
Call(k) ==
    LET hit == CacheHit(cache, k)
        sel == Selection(k.arg)
        out == IF hit THEN [status |-> "ok", parsed |-> FALSE] ELSE Body(k.arg, fs)
        ok  == out.status = "ok"
        inst == IF hit THEN cache[CacheGet(cache, k)].inst
                ELSE IF ok THEN nextInst ELSE NoInst
    IN  /\ nops < MaxOps
        /\ nops' = nops + 1
        /\ cache' = IF hit THEN CacheTouch(cache, k)
                    ELSE CacheAfter(cache, k, out, nextInst)
        /\ nextInst' = IF ~hit /\ ok THEN nextInst + 1 ELSE nextInst
        /\ last' = [op |-> "call", key |-> k, status |-> out.status, inst |-> inst,
                    compiled |-> ~hit, parsed |-> out.parsed, fsKind |-> fs[sel],
                    cacheBefore |-> cache, firstBefore |-> firstInst[sel]]
        /\ prev' = last
        /\ firstInst' = IF ~hit /\ ok /\ firstInst[sel] = NoInst
                        THEN [firstInst EXCEPT ![sel] = inst] ELSE firstInst
        /\ returned' = IF ok THEN [returned EXCEPT ![sel] = @ \cup {inst}] ELSE returned
        /\ usedKeys' = usedKeys \cup {k}
        /\ UNCHANGED <<fs, oldInst, thr>>
        /\ UNCHANGED updateVars /\ UNCHANGED fixVars

\* get_vulkan_object.cache_clear()
Clear ==
    /\ nops < MaxOps
    /\ nops' = nops + 1
    /\ cache' = <<>>
    /\ last' = [NoOp EXCEPT !.op = "clear", !.cacheBefore = cache]
    /\ prev' = last
    /\ firstInst' = [s \in Selections |-> NoInst]
    /\ oldInst' = returned
    /\ UNCHANGED <<fs, nextInst, returned, usedKeys, thr>>
    /\ UNCHANGED updateVars /\ UNCHANGED fixVars

Next ==
    \/ \E k \in Keys : Call(k)
    \/ Clear

Spec == Init /\ [][Next]_vars

(***************************************************************************)
(* Claims about the accessor with one caller (Spec).                       *)
(***************************************************************************)
IsCall(r) == r.op = "call"
OkCall(r) == r.op = "call" /\ r.status = "ok"
FailedCall(r) == r.op = "call" /\ r.status # "ok"

\* The call forms that name each document in one way only.
CanonKeys == {[form |-> "noarg", arg |-> "None"], [form |-> "pos", arg |-> "p1"]}
\* The call forms that select the bundled document.
DefaultKeys == {k \in Keys : Selection(k.arg) = "default"}

\* C1: a call that returned a model, repeated at once in the same form (no
\* clear and no other call in between), returns the identical instance and
\* does not run the body again.
C1_RepeatedCallIsServedFromCache ==
    (OkCall(prev) /\ IsCall(last) /\ last.key = prev.key)
        => (last.status = "ok" /\ last.inst = prev.inst /\ ~last.compiled)

C1_Witness ==
    /\ OkCall(prev) /\ prev.compiled
    /\ OkCall(last) /\ last.key = prev.key /\ last.inst = prev.inst

\* C2: with no clear, a call for a document compiled earlier returns the
\* instance of that first compilation, whatever other documents were
\* requested in between.  (Each document is requested in one form only.)
C2_OnlyClearInvalidates ==
    (usedKeys \subseteq CanonKeys /\ OkCall(last) /\ last.firstBefore # NoInst)
        => (last.inst = last.firstBefore /\ ~last.compiled)

\* C7: all the forms that select the bundled document are one selection:
\* once it is compiled, each of them returns that instance without another
\* compilation.  (Only the bundled document is requested.)
C7_DefaultFormsShareOneModel ==
    (usedKeys \subseteq DefaultKeys /\ OkCall(last) /\ last.firstBefore # NoInst)
        => (last.inst = last.firstBefore /\ ~last.compiled)

\* C4, first half: the first call for a document after a clear builds a new
\* instance, different from every instance returned before the clear.
C4_FreshInstanceAfterClear ==
    (OkCall(last) /\ oldInst[Selection(last.key.arg)] # {} /\ last.firstBefore = NoInst)
        => (last.compiled /\ last.inst \notin oldInst[Selection(last.key.arg)])

\* C4: after a clear, the first call for a document cached before the clear
\* builds a new instance, and the later calls for it return that new
\* instance as long as there is no further clear.
C4_ClearThenFreshThenStable ==
    (usedKeys \subseteq CanonKeys /\ OkCall(last)
        /\ oldInst[Selection(last.key.arg)] # {})
        => /\ last.inst \notin oldInst[Selection(last.key.arg)]
           /\ (last.firstBefore = NoInst => last.compiled)
           /\ (last.firstBefore # NoInst => last.inst = last.firstBefore)

\* C5: a call with an alternate path that is no existing regular file raises
\* FileNotFoundError (not the parse error, not the packaging RuntimeError),
\* before any parse, and returns no model.
C5_MissingAlternatePathRaises ==
    (IsCall(last) /\ Truthy(last.key.arg) /\ last.fsKind \in {"missing", "dir"})
        => /\ last.status = "FileNotFoundError"
           /\ last.status \notin {"ParseError", "RuntimeError", "ok"}
           /\ ~last.parsed
           /\ last.inst = NoInst

C5_Witness ==
    /\ IsCall(last) /\ Truthy(last.key.arg) /\ last.fsKind = "dir"
    /\ last.status = "FileNotFoundError"
    /\ fs["default"] = "missing"
    /\ prev.status = "RuntimeError"

\* C6: a failed call returns no model, stores nothing for its key, leaves the
\* cache as it was, and the same call made again runs the body again.
C6_FailureIsFatalAndNotCached ==
    /\ FailedCall(last)
        => /\ last.inst = NoInst
           /\ last.compiled
           /\ cache = last.cacheBefore
           /\ ~CacheHit(cache, last.key)
    /\ (FailedCall(prev) /\ IsCall(last) /\ last.key = prev.key) => last.compiled

C6_Witness ==
    /\ FailedCall(prev) /\ FailedCall(last) /\ last.key = prev.key
    /\ last.status = "ParseError"
    /\ Len(cache) = 1 /\ cache = prev.cacheBefore

(***************************************************************************)
(* Several threads in get_vulkan_object (SpecConc).  lru_cache holds no    *)
(* lock while the wrapped function runs: the lookup is one step, the body  *)
(* runs outside it, and the store is another step.                         *)
(***************************************************************************)
Threads == {"t1", "t2"}

IdleThread == [pc |-> "idle", key |-> NoKey, status |-> "-", ret |-> NoInst]

InitConc ==
    /\ InitCache /\ IdleHist
    /\ thr = [t \in Threads |-> IdleThread]
    /\ IdleUpdate /\ IdleFix

\* Thread t calls in the form k and finds the key in the cache.
EnterHit(t, k) ==
    /\ thr[t].pc = "idle" /\ nops < MaxOps
    /\ CacheHit(cache, k)
    /\ nops' = nops + 1
    /\ cache' = CacheTouch(cache, k)
    /\ thr' = [thr EXCEPT ![t] = [pc |-> "idle", key |-> k, status |-> "ok",
                                  ret |-> cache[CacheGet(cache, k)].inst]]
    /\ returned' = [returned EXCEPT ![Selection(k.arg)] =
                        @ \cup {cache[CacheGet(cache, k)].inst}]
    /\ usedKeys' = usedKeys \cup {k}
    /\ UNCHANGED <<fs, nextInst, last, prev, firstInst, oldInst>>
    /\ UNCHANGED updateVars /\ UNCHANGED fixVars

\* Thread t calls in the form k, misses, and starts running the body.
EnterMiss(t, k) ==
    /\ thr[t].pc = "idle" /\ nops < MaxOps
    /\ ~CacheHit(cache, k)
    /\ nops' = nops + 1
    /\ thr' = [thr EXCEPT ![t] = [pc |-> "building", key |-> k, status |-> "-",
                                  ret |-> NoInst]]
    /\ usedKeys' = usedKeys \cup {k}
    /\ UNCHANGED <<fs, cache, nextInst, last, prev, firstInst, returned, oldInst>>
    /\ UNCHANGED updateVars /\ UNCHANGED fixVars

\* The body of thread t ends: its result is stored unless the key is in the
\* cache by now, and t returns the instance it built itself.
Finish(t) ==
    LET k   == thr[t].key
        out == Body(k.arg, fs)
        ok  == out.status = "ok"
    IN  /\ thr[t].pc = "building"
        /\ cache' = CacheAfter(cache, k, out, nextInst)
        /\ nextInst' = IF ok THEN nextInst + 1 ELSE nextInst
        /\ thr' = [thr EXCEPT ![t] = [pc |-> "idle", key |-> k, status |-> out.status,
                                      ret |-> IF ok THEN nextInst ELSE NoInst]]
        /\ returned' = IF ok THEN [returned EXCEPT ![Selection(k.arg)] = @ \cup {nextInst}]
                       ELSE returned
        /\ UNCHANGED <<fs, nops, last, prev, firstInst, oldInst, usedKeys>>
        /\ UNCHANGED updateVars /\ UNCHANGED fixVars

\* cache_clear() from any thread.
ClearConc ==
    /\ nops < MaxOps
    /\ nops' = nops + 1
    /\ cache' = <<>>
    /\ oldInst' = returned
    /\ UNCHANGED <<fs, nextInst, last, prev, firstInst, returned, usedKeys, thr>>
    /\ UNCHANGED updateVars /\ UNCHANGED fixVars

NextConc ==
    \/ \E t \in Threads, k \in Keys : EnterHit(t, k)
    \/ \E t \in Threads, k \in Keys : EnterMiss(t, k)
    \/ \E t \in Threads : Finish(t)
    \/ ClearConc

SpecConc == InitConc /\ [][NextConc]_vars

Building(t) == thr[t].pc = "building"

\* C3: at most one compilation of a document is in flight at any time, and
\* the callers of one document all get the same instance (as long as the
\* cache is not cleared and the document is requested in one form only).
C3_AtMostOneBuildInFlight ==
    /\ \A t1, t2 \in Threads :
         (t1 # t2 /\ Building(t1) /\ Building(t2))
            => Selection(thr[t1].key.arg) # Selection(thr[t2].key.arg)
    /\ Cardinality(usedKeys) <= 1
         => \A d \in Selections : Cardinality(returned[d] \ oldInst[d]) <= 1

\* C3, second half alone: the callers of one document share one instance.
C3_CallersShareOneInstance ==
    Cardinality(usedKeys) <= 1
        => \A d \in Selections : Cardinality(returned[d] \ oldInst[d]) <= 1

(***************************************************************************)
(* update.py: fix_relative_imports.  A file's text is a sequence of        *)
(* tokens; the text is their concatenation.  The tokens are chosen so that *)
(* the regular expression sees in the concatenation exactly what is read   *)
(* off the tokens: "from" occurs nowhere but as the token, and a module    *)
(* name followed by a word token is a longer word ("generator" "s").       *)
(***************************************************************************)
KNOWN_MODULES ==
    {"apiconventions", "base_generator", "cgenerator", "generator", "reg",
     "stripAPI", "vkconventions", "vulkan_object", "parse_dependency", "spec_tools"}

\* \s matches the blank and the newline alike.
IsSpace(tok) == tok \in {" ", "\n"}

\* The tokens that start and end with a word character (\w).
IsWord(tok) == tok \notin {" ", "\n", "."}

\* ^ under re.MULTILINE: the start of the text and just after each newline.
AtLineStart(t, i) == i = 1 \/ t[i - 1] = "\n"

\* First position from i on that holds no white space (Len(t) + 1 if none).
RECURSIVE SkipSpace(_, _)
SkipSpace(t, i) ==
    IF i <= Len(t) /\ IsSpace(t[i]) THEN SkipSpace(t, i + 1) ELSE i

\* ^(\s*from\s+)(module)\b tried at position i: the position of the module
\* token when it matches, 0 when it does not.
MatchAt(t, i) ==
    LET j == SkipSpace(t, i)
        k == SkipSpace(t, j + 1)
    IN  IF /\ AtLineStart(t, i)
           /\ j <= Len(t) /\ t[j] = "from"
           /\ k > j + 1
           /\ k <= Len(t) /\ t[k] \in KNOWN_MODULES
           /\ (k = Len(t) \/ ~IsWord(t[k + 1]))
        THEN k ELSE 0

\* pattern.subn(r"\g<1>.\g<2>", content) from position i on: each match,
\* leftmost first, is replaced by its first group, a dot and its second
\* group; the search goes on after the match.
RECURSIVE SubFrom(_, _)
SubFrom(t, i) ==
    IF i > Len(t) THEN <<>>
    ELSE LET k == MatchAt(t, i)
         IN  IF k > 0
             THEN SubSeq(t, i, k - 1) \o <<".", t[k]>> \o SubFrom(t, k + 1)
             ELSE <<t[i]>> \o SubFrom(t, i + 1)

\* What fix_relative_imports leaves in a file that held content.
FixContent(content) == SubFrom(content, 1)

(***************************************************************************)
(* fix_relative_imports on one file (SpecFix): the file's text is any      *)
(* token sequence up to MaxLen, and the function is run over it            *)
(* repeatedly.                                                             *)
(***************************************************************************)
Tokens == {"from", " ", "\n", ".", "reg", "generator", "s", "import"}

Texts == UNION {[1..n -> Tokens] : n \in 0..MaxLen}

InitFix ==
    /\ text \in Texts
    /\ passes = 0
    /\ orig = <<>>
    /\ IdleCache
    /\ upc = "-" /\ srcReg = "-" /\ dest = "-"
    /\ pyproject = "-" /\ version = "-" /\ trail = <<>>

\* One run of fix_relative_imports over the file; orig keeps the text each
\* run started from.
FixRun ==
    /\ passes < MaxPasses
    /\ passes' = passes + 1
    /\ text' = FixContent(text)
    /\ orig' = Append(orig, text)
    /\ UNCHANGED <<upc, srcReg, dest, pyproject, version, trail>>
    /\ UNCHANGED cacheVars /\ UNCHANGED histVars /\ UNCHANGED thr

NextFix == FixRun

SpecFix == InitFix /\ [][NextFix]_vars

\* The rewriting as the claim words it, line by line: a line that is an
\* optional indentation, "from", at least one blank and a known module that
\* ends there gets a dot before the module; any other line stays as it is.
RECURSIVE SkipBlank(_, _)
SkipBlank(l, i) == IF i <= Len(l) /\ l[i] = " " THEN SkipBlank(l, i + 1) ELSE i

LineFix(l) ==
    LET j == SkipBlank(l, 1)
        k == SkipBlank(l, j + 1)
    IN  IF /\ j <= Len(l) /\ l[j] = "from"
           /\ k > j + 1
           /\ k <= Len(l) /\ l[k] \in KNOWN_MODULES
           /\ (k = Len(l) \/ ~IsWord(l[k + 1]))
        THEN SubSeq(l, 1, k - 1) \o <<".">> \o SubSeq(l, k, Len(l))
        ELSE l

\* Length of the first line of t (without its newline).
RECURSIVE LineLen(_, _)
LineLen(t, i) == IF i <= Len(t) /\ t[i] # "\n" THEN LineLen(t, i + 1) ELSE i - 1

RECURSIVE FixByLines(_)
FixByLines(t) ==
    LET n == LineLen(t, 1)
    IN  IF n = Len(t) THEN LineFix(t)
        ELSE LineFix(SubSeq(t, 1, n)) \o <<"\n">> \o FixByLines(SubSeq(t, n + 2, Len(t)))

\* C9: one run rewrites exactly the "from <known module>" lines, leaving the
\* other lines (and the modules that only share a prefix) alone, and a
\* second run changes nothing.
C9_RewritesExactlyTheFromLines ==
    /\ passes >= 1 => (IF passes = 1 THEN text ELSE orig[2]) = FixByLines(orig[1])
    /\ passes >= 2 => text = orig[passes]

\* C9, last part alone: a run over the output of a run changes nothing.
C9_SecondRunChangesNothing ==
    passes >= 2 => text = orig[passes]

\* C9, restricted to texts where no newline stands between "from" and what
\* follows it.
NoFromAtLineEnd(t) ==
    \A i \in 1..Len(t) : t[i] = "from" => SkipSpace(t, i + 1) = SkipBlank(t, i + 1)

C9_HoldsWithinOneLine ==
    (passes >= 1 /\ NoFromAtLineEnd(orig[1]))
        => (IF passes = 1 THEN text ELSE orig[2]) = FixByLines(orig[1])

(***************************************************************************)
(* update.py: the file trees.  A directory maps entry names to entries; an *)
(* entry is absent, a file with a text, or a directory with files in it.   *)
(***************************************************************************)
Names == {"vk.xml", "reg.py", "spec_tools"}

Absent   == [kind |-> "absent", data |-> <<>>, kids |-> {}]
File(c)  == [kind |-> "file", data |-> c, kids |-> {}]
Dir(ks)  == [kind |-> "dir", data |-> <<>>, kids |-> ks]

\* File texts.  In vk.xml, "PATCH" stands for the text
\* <name>VK_HEADER_VERSION</name> 318</type> and "COMPLETE" for the
\* VK_HEADER_VERSION_COMPLETE macro with (0, 1, 4, ...).
VkGood       == <<"PATCH", "\n", "COMPLETE">>
VkNoComplete == <<"PATCH">>
VkNoPatch    == <<"COMPLETE">>
PyAbsolute   == <<"from", " ", "reg", " ", "import">>
PyRelative   == <<"from", " ", ".", "reg", " ", "import">>

\* The entries each name can have in the source registry and in DEST_DIR.
EntriesOf(n) ==
    IF n = "vk.xml"
    THEN {Absent, File(VkGood), File(VkNoComplete), File(VkNoPatch), Dir({})}
    ELSE IF n = "reg.py"
    THEN {Absent, File(PyAbsolute), File(PyRelative), Dir({})}
    ELSE {Absent, File(<<>>), Dir({<<"util.py", PyAbsolute>>}),
          Dir({<<"old.py", PyAbsolute>>})}

Trees ==
    {[exists |-> TRUE, items |-> it] :
        it \in {f \in [Names -> UNION {EntriesOf(n) : n \in Names}] :
                    \A n \in Names : f[n] \in EntriesOf(n)}}

NoTree == [exists |-> FALSE, items |-> [n \in Names |-> Absent]]

Present(tree) == {n \in Names : tree.items[n].kind # "absent"}

\* pyproject.toml: missing, without a version line, or with one.
PyprojectStates == {"absent", "noversion", "version=0.0.1"}

(***************************************************************************)
(* update.py: the four steps.                                              *)
(***************************************************************************)
Contains(c, tok) == \E i \in 1..Len(c) : c[i] = tok

\* get_vulkan_header_version with the check for the
\* VK_HEADER_VERSION_COMPLETE macro left out: a default stands in for the
\* major and minor numbers.
get_vulkan_header_version_NoCompleteCheck(reg) ==
    LET e == reg.items["vk.xml"]
    IN  IF e.kind # "file" THEN [err |-> "FileNotFoundError", value |-> "-"]
        ELSE IF ~Contains(e.data, "PATCH") THEN [err |-> "ValueError", value |-> "-"]
        ELSE [err |-> "none", value |-> "1.4.318"]

\* get_vulkan_header_version(registry_path): the version string, or the
\* exception raised.
get_vulkan_header_version(reg) ==
    LET e == reg.items["vk.xml"]
    IN  IF e.kind # "file" THEN [err |-> "FileNotFoundError", value |-> "-"]
        ELSE IF ~Contains(e.data, "PATCH") THEN [err |-> "ValueError", value |-> "-"]
        ELSE IF ~Contains(e.data, "COMPLETE") THEN [err |-> "ValueError", value |-> "-"]
        ELSE [err |-> "none", value |-> "1.4.318"]

\* update_pyproject_version(version): pyproject.toml afterwards.
update_pyproject_version(pp, v) ==
    IF pp = "absent" THEN pp
    ELSE IF pp = "noversion" THEN pp
    ELSE "version=" \o v

\* shutil.copy2(item, dest_item): onto a file or a free name it writes the
\* file; onto a directory it writes the file inside that directory, under
\* the file's own name.
copy2(n, item, d) ==
    IF d.kind = "dir"
    THEN Dir({kd \in d.kids : kd[1] # n} \cup {<<n, item.data>>})
    ELSE File(item.data)

\* One turn of the loop of copy_registry_files, for entry n of the source.
\* shutil.rmtree of something that is not a directory raises
\* NotADirectoryError.
CopyItem(st, n, source) ==
    LET item == source.items[n]
        d    == st.items[n]
    IN  IF st.err # "none" THEN st
        ELSE IF item.kind = "dir"
        THEN IF d.kind = "file"
             THEN [st EXCEPT !.err = "NotADirectoryError"]
             ELSE [st EXCEPT !.items[n] = item]
        ELSE [st EXCEPT !.items[n] = copy2(n, item, d)]

RECURSIVE CopyLoop(_, _, _)
CopyLoop(st, order, source) ==
    IF order = <<>> THEN st
    ELSE CopyLoop(CopyItem(st, Head(order), source), Tail(order), source)

\* The orders source_path.iterdir() can list the entries in.
Orders(S) ==
    {o \in UNION {[1..n -> S] : n \in {Cardinality(S)}} :
        \A i, j \in 1..Len(o) : i # j => o[i] # o[j]}

\* copy_registry_files(source_path) with the entries listed in order:
\* DEST_DIR afterwards, and the exception raised if any.
copy_registry_files(source, d, order) ==
    CopyLoop([err |-> "none", items |-> d.items], order, source)

\* The files DEST_DIR.glob("*.py") yields.
PyNames == {"reg.py"}

\* fix_relative_imports(): DEST_DIR afterwards; reading a directory named
\* *.py raises IsADirectoryError.
fix_relative_imports(d) ==
    IF \E n \in PyNames : d.items[n].kind = "dir"
    THEN [err |-> "IsADirectoryError", items |-> d.items]
    ELSE [err |-> "none",
          items |-> [n \in Names |->
                        IF n \in PyNames /\ d.items[n].kind = "file"
                        THEN File(FixContent(d.items[n].data))
                        ELSE d.items[n]]]

(***************************************************************************)
(* update.py: main, step by step (SpecUpdate).                             *)
(***************************************************************************)
InitUpdate ==
    /\ srcReg \in Trees \cup {NoTree}
    /\ dest \in Trees \cup {NoTree}
    /\ pyproject \in PyprojectStates
    /\ orig = [dest |-> dest, pyproject |-> pyproject]
    /\ upc = "start"
    /\ version = "-"
    /\ trail = <<>>
    /\ IdleCache /\ IdleFix

UnchangedElsewhere ==
    /\ UNCHANGED cacheVars /\ UNCHANGED histVars /\ UNCHANGED thr
    /\ UNCHANGED fixVars

\* `if not source_registry_path.is_dir(): ... return`
MainCheckRegistry ==
    /\ upc = "start"
    /\ upc' = IF srcReg.exists THEN "step1" ELSE "failed"
    /\ UNCHANGED <<srcReg, dest, pyproject, version, trail, orig>>
    /\ UnchangedElsewhere

\* Step 1: version = get_vulkan_header_version(source_registry_path); the
\* except clause catches FileNotFoundError and ValueError.
MainReadVersion ==
    LET r == get_vulkan_header_version(srcReg)
    IN  /\ upc = "step1"
        /\ trail' = Append(trail, "version")
        /\ version' = r.value
        /\ upc' = IF r.err = "none" THEN "step2" ELSE "failed"
        /\ UNCHANGED <<srcReg, dest, pyproject, orig>>
        /\ UnchangedElsewhere

\* Step 2: copy_registry_files(source_registry_path); DEST_DIR is created if
\* it is not there; NotADirectoryError is not caught by main.
MainCopy ==
    /\ upc = "step2"
    /\ \E order \in Orders(Present(srcReg)) :
         LET r == copy_registry_files(srcReg, dest, order)
         IN  /\ dest' = [exists |-> TRUE, items |-> r.items]
             /\ upc' = IF r.err = "none" THEN "step3" ELSE "crashed"
    /\ trail' = Append(trail, "copy")
    /\ UNCHANGED <<srcReg, pyproject, version, orig>>
    /\ UnchangedElsewhere

\* Step 3: update_pyproject_version(version)
MainUpdatePyproject ==
    /\ upc = "step3"
    /\ pyproject' = update_pyproject_version(pyproject, version)
    /\ upc' = "step4"
    /\ trail' = Append(trail, "pyproject")
    /\ UNCHANGED <<srcReg, dest, version, orig>>
    /\ UnchangedElsewhere

\* Step 4: fix_relative_imports(); IsADirectoryError is not caught by main.
MainFixImports ==
    LET r == fix_relative_imports(dest)
    IN  /\ upc = "step4"
        /\ dest' = [dest EXCEPT !.items = r.items]
        /\ upc' = IF r.err = "none" THEN "done" ELSE "crashed"
        /\ trail' = Append(trail, "imports")
        /\ UNCHANGED <<srcReg, pyproject, version, orig>>
        /\ UnchangedElsewhere

NextUpdate ==
    \/ MainCheckRegistry
    \/ MainReadVersion
    \/ MainCopy
    \/ MainUpdatePyproject
    \/ MainFixImports

SpecUpdate == InitUpdate /\ [][NextUpdate]_vars

(***************************************************************************)
(* Claims about update.py.                                                 *)
(***************************************************************************)
StepOrder == <<"version", "copy", "pyproject", "imports">>

IsPrefix(p, q) == Len(p) <= Len(q) /\ SubSeq(q, 1, Len(p)) = p

Ran(step) == \E i \in 1..Len(trail) : trail[i] = step

\* The preconditions of the copy step, as the claim lists them.
PreconditionFails(reg) ==
    \/ ~reg.exists
    \/ reg.items["vk.xml"].kind # "file"
    \/ ~Contains(reg.items["vk.xml"].data, "PATCH")
    \/ ~Contains(reg.items["vk.xml"].data, "COMPLETE")

Untouched == dest = orig.dest /\ pyproject = orig.pyproject

\* C8: main runs read-version, copy, update-pyproject, fix-imports in that
\* order; the version is read before anything is copied; and when the
\* registry directory, vk.xml or one of the two version patterns is missing,
\* main ends with DEST_DIR and pyproject.toml as they were.
C8_StepsInOrderAndNoWriteOnFailedPrecondition ==
    /\ IsPrefix(trail, StepOrder)
    /\ upc = "done" => trail = StepOrder
    /\ ~Ran("copy") => Untouched
    /\ Ran("copy") => version = "1.4.318"
    /\ PreconditionFails(srcReg) => (Untouched /\ upc \in {"start", "step1", "failed"})
    /\ upc = "failed" => (PreconditionFails(srcReg) /\ Untouched)

C8_Witness ==
    /\ upc = "failed"
    /\ trail = <<"version">>
    /\ srcReg.items["vk.xml"] = File(VkNoComplete)
    /\ srcReg.items["reg.py"] = File(PyAbsolute)
    /\ dest.exists /\ dest.items["reg.py"] = File(PyRelative)
    /\ pyproject = "version=0.0.1"

JustCopied == upc = "step3"

\* C10: when copy_registry_files has completed, each file of the source is
\* in DEST_DIR with the source's content, each directory of the source is
\* mirrored exactly, and the entries of DEST_DIR that the source does not
\* have are as they were.
C10_CopyMakesDestASupersetOfSource ==
    JustCopied =>
        \A n \in Names :
            /\ srcReg.items[n].kind = "file" => dest.items[n] = srcReg.items[n]
            /\ srcReg.items[n].kind = "dir" => dest.items[n] = srcReg.items[n]
            /\ srcReg.items[n].kind = "absent" => dest.items[n] = orig.dest.items[n]

\* C10, where no file of the source meets a directory of the same name in
\* DEST_DIR.
C10_HoldsWithoutFileOverDirectory ==
    (JustCopied /\ \A n \in Names :
         ~(srcReg.items[n].kind = "file" /\ orig.dest.items[n].kind = "dir"))
    => \A n \in Names :
            /\ srcReg.items[n].kind \in {"file", "dir"} => dest.items[n] = srcReg.items[n]
            /\ srcReg.items[n].kind = "absent" => dest.items[n] = orig.dest.items[n]

====
